---------------------------- MODULE Spec2Model ----------------------------
(***************************************************************************)
(* Radar PDW simulation and de-interleaving workbench.                     *)
(*                                                                         *)
(* The session state of the Streamlit application (st.session_state) and   *)
(* the renders of its pages: auto mode (simulation/auto_mode.py), manual   *)
(* mode (simulation/manual_mode.py) and the de-interleaving view           *)
(* (deinterleaving/dbscan_ui.py).  One action is one run of a page script  *)
(* with the widget values and the pressed button as its inputs.            *)
(*                                                                         *)
(* Times are integer microseconds, frequencies integer MHz.  An optional   *)
(* value (a key that may be missing from a dict, a None) is a sequence of  *)
(* length 0 or 1.                                                          *)
(***************************************************************************)
EXTENDS Integers, Sequences, FiniteSets

VARIABLES
    global_time_us,         \* st.session_state.global_time_us
    pdw_buffer,             \* st.session_state.pdw_buffer
    auto_running,           \* st.session_state.auto_running
    active_emitters,        \* st.session_state.active_emitters (optional)
    auto_config,            \* st.session_state.auto_config (the keys read elsewhere)
    manual_global_time_us,  \* st.session_state.manual_global_time_us
    manual_pdw_buffer,      \* st.session_state.manual_pdw_buffer
    manual_running,         \* st.session_state.manual_running
    manual_config,          \* st.session_state.manual_config (the keys read elsewhere)
    windows,                \* history: the windows whose PDWs are in the buffers
    after_reset,            \* history: "auto" or "manual" when a reset of that mode produced
                            \* this state, "rejected" when a render of auto mode that
                            \* stopped at the percentage check did, "none" otherwise
    dbscan_state,           \* st.session_state.dbscan_state
    raw_labels,             \* history: the labels the clusterer returned for
                            \* dbscan_state.results
    view_log,               \* history: what the last run of dbscan_ui did, when logged
    scan,                   \* the auto-tuner scan of dbscan_ui, taken radius by radius
    engine,                 \* a call of run_clustering: its arguments and what it did
    emitters_call           \* a call of generate_emitters_config: its arguments and
                            \* the list it returned

session_vars == <<global_time_us, pdw_buffer, auto_running, active_emitters,
                  auto_config, manual_global_time_us, manual_pdw_buffer,
                  manual_running, manual_config, windows, after_reset>>

auto_vars == <<global_time_us, pdw_buffer, auto_running, active_emitters, auto_config>>

manual_vars == <<manual_global_time_us, manual_pdw_buffer, manual_running, manual_config>>

deint_vars == <<dbscan_state, raw_labels>>

aux_vars == <<view_log, scan, engine, emitters_call>>

-----------------------------------------------------------------------------
(* Bounds and inputs *)

\* at most this many windows are held in the two buffers together
MaxWindows == 2

\* values of the "Number of Emitters" widgets tried
NumEmitterInputs == {1, 2}

\* values of the "Pulses per Emitter" widgets tried
PulseInputs == {1, 2}

\* (fixed, agile, stagger) percentages tried; the second does not sum to 100
PctInputs == {<<50, 50, 0>>, <<50, 0, 0>>}

\* readings of the wall clock, microseconds since midnight
ClockReadings == {1000000, 5000000}

\* the outcomes of np.random tried: what successive draws of one render return,
\* each draw a level 0, 1 or 2; the tuple is cycled
RngStreams == {<<0>>, <<1, 2>>}

-----------------------------------------------------------------------------
(* Program constants *)

WindowUs == 2000000

DefaultNumEmitters == 10

DefaultManualNumEmitters == 3

DefaultRanges ==
    [f_min |-> 8000, f_max |-> 12000, pri_min |-> 2000, pri_max |-> 6000,
     pw_min |-> 10, pw_max |-> 50, amp_min |-> -80, amp_max |-> -30,
     doa_min |-> 0, doa_max |-> 360]

\* the PRI range set to the smallest value its widgets admit (2.0)
LowPriRanges == [DefaultRanges EXCEPT !.pri_min = 2, !.pri_max = 2]

RangeInputs == {DefaultRanges, LowPriRanges}

-----------------------------------------------------------------------------
(* Optional values *)

None == <<>>

Some(x) == <<x>>

-----------------------------------------------------------------------------
(* The random source *)

\* the i-th draw (i >= 1) of a render whose random outcomes are s
Draw(s, i) == s[((i - 1) % Len(s)) + 1]

\* np.random.uniform(lo, hi) = lo + (hi - lo) * u with u in [0, 1): u = d/3
Uniform(lo, hi, d) == lo + (((hi - lo) * d) \div 3)

\* np.random.normal(0, sigma) = sigma * z: z = d - 1
Normal(sigma, d) == sigma * (d - 1)

Swap(x, i, j) == [x EXCEPT ![i] = x[j], ![j] = x[i]]

\* np.random.shuffle: for i = n-1 down to 1, swap x[i] with x[j], j drawn
\* from 0..i (indices here are one more); draws pos, pos+1, ...
RECURSIVE ShuffleFrom(_, _, _, _)
ShuffleFrom(x, i, s, pos) ==
    IF i < 2 THEN x
    ELSE ShuffleFrom(Swap(x, i, (Draw(s, pos) % i) + 1), i - 1, s, pos + 1)

Shuffle(x, s, pos) == ShuffleFrom(x, Len(x), s, pos)

\* the number of draws Shuffle makes on n elements
ShuffleDraws(n) == IF n < 2 THEN 0 ELSE n - 1

-----------------------------------------------------------------------------
(* Auto mode: emitter generation *)

Replicate(x, k) == [i \in 1..k |-> x]

\* np.linspace(lo, hi, n + 2)[1:-1]
LinspaceInner(lo, hi, n) == [i \in 1..n |-> lo + ((i * (hi - lo)) \div (n + 1))]

\* the number of draws generate_emitters_config makes
EmitterConfigDraws(num_emitters) == 3 * ShuffleDraws(num_emitters) + 5 * num_emitters

GenerateEmittersConfig(num_emitters, fixed_pct, agile_pct, stagger_pct, r, s) ==
    LET n_fixed   == (num_emitters * fixed_pct) \div 100
        n_agile   == (num_emitters * agile_pct) \div 100
        n_stagger == num_emitters - n_fixed - n_agile
        sd        == ShuffleDraws(num_emitters)
        emitter_types ==
            Shuffle(Replicate("fixed", n_fixed) \o Replicate("agile", n_agile)
                        \o Replicate("stagger", n_stagger), s, 1)
        base_freqs ==
            Shuffle(LinspaceInner(r.f_min, r.f_max, num_emitters), s, sd + 1)
        base_pris ==
            Shuffle(LinspaceInner(r.pri_min, r.pri_max, num_emitters), s, 2 * sd + 1)
        at(i) == 3 * sd + 5 * (i - 1)
    IN  [i \in 1..Len(emitter_types) |->
            [type       |-> emitter_types[i],
             freq_modes |-> <<base_freqs[i] + Uniform(-50, 50, Draw(s, at(i) + 1))>>,
             pri_modes  |-> <<base_pris[i] + Uniform(-100, 100, Draw(s, at(i) + 2))>>,
             pw         |-> Uniform(r.pw_min, r.pw_max, Draw(s, at(i) + 3)),
             amp        |-> Uniform(r.amp_min, r.amp_max, Draw(s, at(i) + 4)),
             doa        |-> Uniform(r.doa_min, r.doa_max, Draw(s, at(i) + 5))]]

-----------------------------------------------------------------------------
(* Window generation *)

\* range(1, n) in place of range(n)
PulseRange_FromOne(n) == [j \in 1..(n - 1) |-> j]

\* range(n) as a sequence: 0, 1, ..., n - 1
PulseRange(n) == [j \in 1..n |-> j - 1]

\* a mode value that drifts with the pulse index
Mode_Drift(modes, k) == modes[(k % Len(modes)) + 1] + k

\* modes[k % len(modes)]
Mode(modes, k) == modes[(k % Len(modes)) + 1]

RECURSIVE Concat(_)
Concat(seqs) == IF seqs = <<>> THEN <<>> ELSE Head(seqs) \o Concat(Tail(seqs))

\* the running toa of an auto-mode emitter when pulse k is appended: the start
\* value plus the PRIs of the pulses before it ("toa += pri" after each pulse)
RECURSIVE RunningToa(_, _, _)
RunningToa(pri_modes, toa0, k) ==
    IF k = 0 THEN toa0
    ELSE RunningToa(pri_modes, toa0, k - 1) + Mode(pri_modes, k - 1)

\* the pulses of one emitter in generate_pdws_from_emitters; d is the draw of
\* its start offset.  Each pulse is the PDW row with the PRI of its step.
EmitterPulses(emitter, pulses_per_emitter, window_start, d) ==
    LET start_offset == Uniform(0, emitter.pri_modes[1], d)
        toa0 == window_start + start_offset
        ks   == PulseRange(pulses_per_emitter)
    IN  [j \in 1..Len(ks) |->
            [pdw |-> [freq_MHz |-> Mode(emitter.freq_modes, ks[j]),
                      pri_us   |-> Mode(emitter.pri_modes, ks[j]),
                      pw_us    |-> emitter.pw,
                      doa_deg  |-> emitter.doa,
                      amp_dB   |-> emitter.amp,
                      toa_us   |-> RunningToa(emitter.pri_modes, toa0, ks[j])],
             pri |-> Mode(emitter.pri_modes, ks[j])]]

\* the rows of generate_pdws_from_emitters, emitter after emitter; the start
\* offsets are draws pos + 1, pos + 2, ...
GeneratePdwsFromEmitters(emitters, pulses_per_emitter, window_start, s, pos) ==
    Concat([e \in 1..Len(emitters) |->
               EmitterPulses(emitters[e], pulses_per_emitter, window_start,
                             Draw(s, pos + e))])

\* window_end = window_start + 2e5
WindowEnd_Short(window_start) == window_start + 200000

\* window_end = window_start - 2e6
WindowEnd_Backwards(window_start) == window_start - WindowUs

\* window_end = window_start + 2e6
WindowEnd(window_start) == window_start + WindowUs

\* buffer = rows in place of buffer.extend(rows)
Extend_Replace(buffer, rows) == rows

\* buffer.extend(rows)
Extend(buffer, rows) == buffer \o rows

Pdws(pulses) == [i \in 1..Len(pulses) |-> pulses[i].pdw]

Pris(pulses) == [i \in 1..Len(pulses) |-> pulses[i].pri]

\* the history record of a generated window: its rows are
\* buffer[base + 1 .. base + Len(pris)] of the buffer of its mode
WindowRecord(mode, start, base, num_emitters, n_used, pulses_per_emitter, pulses) ==
    [mode |-> mode, start |-> start, base |-> base, num_emitters |-> num_emitters,
     n_used |-> n_used, pulses |-> pulses_per_emitter, pris |-> Pris(pulses)]

WindowsOf(mode) == SelectSeq(windows, LAMBDA w : w.mode = mode)

-----------------------------------------------------------------------------
(* Auto mode *)

PctSum(pct) == pct[1] + pct[2] + pct[3]

\* a render that never stops at the percentage check
Rejects_Never(pct) == FALSE

\* "if fixed_pct + agile_pct + stagger_pct != 100"
Rejects(pct) == PctSum(pct) # 100

\* the list generated again in every window
EnsureActiveEmitters_Regenerate(active, fresh) == Some(fresh)

\* "if 'active_emitters' not in st.session_state": the persisted list is
\* created only when missing
EnsureActiveEmitters(active, fresh) == IF active = None THEN Some(fresh) ELSE active

\* the reset without the del
DropActiveEmitters_Keep(active) == active

\* "del st.session_state.active_emitters"
DropActiveEmitters(active) == None

\* the GENERATE PDWs block of auto_mode_ui
AutoGenerate(num_emitters, pulses_per_emitter, pct, r, s) ==
    LET created == active_emitters = None
        fresh   == GenerateEmittersConfig(num_emitters, pct[1], pct[2], pct[3], r, s)
        active  == EnsureActiveEmitters(active_emitters, fresh)
        pos     == IF created THEN EmitterConfigDraws(num_emitters) ELSE 0
        window_start == global_time_us
        pulses  == GeneratePdwsFromEmitters(active[1], pulses_per_emitter,
                                            window_start, s, pos)
    IN  /\ active_emitters' = active
        /\ global_time_us' = WindowEnd(window_start)
        /\ pdw_buffer' = Extend(pdw_buffer, Pdws(pulses))
        /\ auto_running' = FALSE
        /\ windows' = Append(windows,
                             WindowRecord("auto", window_start, Len(pdw_buffer),
                                          num_emitters, Len(active[1]),
                                          pulses_per_emitter, pulses))
        /\ after_reset' = "none"

\* the Reset button of auto_mode_ui, with the rerun it triggers: the rerun
\* renders the page with no button pressed and the widgets at their defaults
AutoResetPressed(now) ==
    /\ auto_running' = FALSE
    /\ global_time_us' = now
    /\ pdw_buffer' = <<>>
    /\ active_emitters' = DropActiveEmitters(active_emitters)
    /\ auto_config' = [num_emitters |-> Some(DefaultNumEmitters)]
    /\ windows' = WindowsOf("manual")
    /\ after_reset' = "auto"

\* one run of auto_mode_ui: the widget values, the button pressed ("none",
\* "start", "pause", "reset"), the random outcomes and the wall clock
AutoModeUi(num_emitters, pulses_per_emitter, pct, r, button, s, now) ==
    /\ UNCHANGED manual_vars
    /\ UNCHANGED deint_vars
    /\ UNCHANGED aux_vars
    /\ IF Rejects(pct)
       THEN \* "Emitter percentages must sum to 100": return before the buttons
            /\ auto_config' = [num_emitters |-> Some(num_emitters)]
            /\ UNCHANGED <<global_time_us, pdw_buffer, auto_running,
                           active_emitters, windows>>
            /\ after_reset' = "rejected"
       ELSE IF button = "reset"
       THEN AutoResetPressed(now)
       ELSE LET running == CASE button = "start" -> TRUE
                             [] button = "pause" -> FALSE
                             [] OTHER -> auto_running
            IN  /\ auto_config' = [num_emitters |-> Some(num_emitters)]
                /\ IF running
                   THEN AutoGenerate(num_emitters, pulses_per_emitter, pct, r, s)
                   ELSE /\ auto_running' = running
                        /\ UNCHANGED <<global_time_us, pdw_buffer,
                                       active_emitters, windows>>
                        /\ after_reset' = "none"

ValidPcts == {pct \in PctInputs : PctSum(pct) = 100}

\* inputs standing for the widgets and sources a path of the render does not read
AnyPulses == CHOOSE p \in PulseInputs : TRUE

AnyValidPct == CHOOSE pct \in ValidPcts : TRUE

NoDraws == <<0>>

NoClock == CHOOSE t \in ClockReadings : TRUE

\* the render returns above the buttons: Start stands for whatever is pressed
AutoRejected ==
    \E n \in NumEmitterInputs, pct \in PctInputs \ ValidPcts :
        AutoModeUi(n, AnyPulses, pct, DefaultRanges, "start", NoDraws, NoClock)

AutoRender ==
    \E n \in NumEmitterInputs :
        AutoModeUi(n, AnyPulses, AnyValidPct, DefaultRanges, "none", NoDraws, NoClock)

AutoStart ==
    /\ Len(windows) < MaxWindows
    /\ \E n \in NumEmitterInputs, p \in PulseInputs, pct \in ValidPcts,
          r \in RangeInputs, s \in RngStreams :
        AutoModeUi(n, p, pct, r, "start", s, NoClock)

AutoPause ==
    \E n \in NumEmitterInputs :
        AutoModeUi(n, AnyPulses, AnyValidPct, DefaultRanges, "pause", NoDraws, NoClock)

AutoReset ==
    \E n \in NumEmitterInputs, now \in ClockReadings :
        AutoModeUi(n, AnyPulses, AnyValidPct, DefaultRanges, "reset", NoDraws, now)

-----------------------------------------------------------------------------
(* Manual mode *)

NoNoise == [freq |-> 0, pri_pct |-> 0, pw_pct |-> 0, doa |-> 0]

SomeNoise == [freq |-> 2, pri_pct |-> 10, pw_pct |-> 10, doa |-> 1]

\* the type selections (frequency type, PRI type) of emitter 1, emitter 2, ...
\* (cycled) and the noise settings tried; every other widget of an emitter is
\* left at the default the code gives it
ManualScenarios ==
    {[types |-> << <<"Fixed", "Fixed">>, <<"Agile", "Staggered">> >>,
      noise |-> NoNoise],
     [types |-> << <<"Fixed", "Jittered">>, <<"Agile", "Fixed">> >>,
      noise |-> SomeNoise]}

\* the emitter dict built from the widgets of "Emitter i+1" (i from 0)
ManualEmitter(i, freq_type, pri_type) ==
    [freqs      |-> IF freq_type = "Agile"
                    THEN [m \in 1..3 |-> 9000 + (m - 1) * 50]
                    ELSE <<9000 + i * 500>>,
     pri_type   |-> pri_type,
     pri_values |-> IF pri_type = "Staggered"
                    THEN [q \in 1..2 |-> 2000 + (q - 1) * 500]
                    ELSE <<2000 + i * 500>>,
     pw  |-> 10,
     amp |-> -60,
     doa |-> 90]

ManualEmitters(num_emitters, types) ==
    [j \in 1..num_emitters |->
        ManualEmitter(j - 1, Mode(types, j - 1)[1], Mode(types, j - 1)[2])]

\* the number of draws one pulse of emitter e makes
ManualPulseDraws(e) == IF e.pri_type = "Jittered" THEN 6 ELSE 5

\* the number of draws the emitters before emitter idx make
RECURSIVE ManualDrawsBefore(_, _, _)
ManualDrawsBefore(emitters, idx, pulses_per_emitter) ==
    IF idx <= 1 THEN 0
    ELSE ManualDrawsBefore(emitters, idx - 1, pulses_per_emitter)
         + 1 + pulses_per_emitter * ManualPulseDraws(emitters[idx - 1])

\* one pass of the pulse loop of manual_mode_ui; its draws are pos + 1, ...
ManualPulse(e, k, toa, noise, s, pos) ==
    LET nominal == Mode(e.pri_values, k)
        jittered == e.pri_type = "Jittered"
        pri == IF jittered
               THEN nominal + Normal((5 * nominal) \div 100, Draw(s, pos + 1))
               ELSE nominal
        q == IF jittered THEN pos + 1 ELSE pos
        sim_freq_tol == noise.freq
        sim_pri_tol  == (noise.pri_pct * pri) \div 100
        sim_pw_tol   == (noise.pw_pct * e.pw) \div 100
        sim_doa_tol  == noise.doa
        sim_amp_tol  == 1
    IN  [pdw |-> [freq_MHz |-> Mode(e.freqs, k) + Normal(sim_freq_tol, Draw(s, q + 1)),
                  pri_us   |-> pri + Normal(sim_pri_tol, Draw(s, q + 2)),
                  pw_us    |-> e.pw + Normal(sim_pw_tol, Draw(s, q + 3)),
                  doa_deg  |-> e.doa + Normal(sim_doa_tol, Draw(s, q + 4)),
                  amp_dB   |-> e.amp + Normal(sim_amp_tol, Draw(s, q + 5)),
                  toa_us   |-> toa],
         pri |-> pri]

\* the pulses of one emitter in manual_mode_ui: toa is set once, before the
\* pulse loop, and the loop does not change it
ManualEmitterPulses(e, pulses_per_emitter, window_start, noise, s, pos) ==
    LET start_offset == Uniform(0, e.pri_values[1], Draw(s, pos + 1))
        toa == window_start + start_offset
        ks  == PulseRange(pulses_per_emitter)
    IN  [j \in 1..Len(ks) |->
            ManualPulse(e, ks[j], toa, noise, s,
                        pos + 1 + (j - 1) * ManualPulseDraws(e))]

ManualRows(emitters, pulses_per_emitter, window_start, noise, s) ==
    Concat([idx \in 1..Len(emitters) |->
               ManualEmitterPulses(emitters[idx], pulses_per_emitter, window_start,
                                   noise, s,
                                   ManualDrawsBefore(emitters, idx, pulses_per_emitter))])

\* the GENERATE PDWs block of manual_mode_ui
ManualGenerate(emitters, pulses_per_emitter, noise, s) ==
    LET window_start == manual_global_time_us
        pulses == ManualRows(emitters, pulses_per_emitter, window_start, noise, s)
    IN  /\ manual_global_time_us' = WindowEnd(window_start)
        /\ manual_pdw_buffer' = Extend(manual_pdw_buffer, Pdws(pulses))
        /\ manual_running' = FALSE
        /\ windows' = Append(windows,
                             WindowRecord("manual", window_start,
                                          Len(manual_pdw_buffer), Len(emitters),
                                          Len(emitters), pulses_per_emitter, pulses))
        /\ after_reset' = "none"

\* the Reset button of manual_mode_ui, with the rerun it triggers
ManualResetPressed ==
    /\ manual_running' = FALSE
    /\ manual_global_time_us' = 0
    /\ manual_pdw_buffer' = <<>>
    /\ manual_config' = [num_emitters |-> Some(DefaultManualNumEmitters)]
    /\ windows' = WindowsOf("auto")
    /\ after_reset' = "manual"

\* one run of manual_mode_ui
ManualModeUi(num_emitters, pulses_per_emitter, sc, button, s) ==
    /\ UNCHANGED auto_vars
    /\ UNCHANGED deint_vars
    /\ UNCHANGED aux_vars
    /\ IF button = "reset"
       THEN ManualResetPressed
       ELSE LET running == CASE button = "start" -> TRUE
                             [] button = "pause" -> FALSE
                             [] OTHER -> manual_running
                emitters == ManualEmitters(num_emitters, sc.types)
            IN  /\ manual_config' = [num_emitters |-> Some(num_emitters)]
                /\ IF running
                   THEN ManualGenerate(emitters, pulses_per_emitter, sc.noise, s)
                   ELSE /\ manual_running' = running
                        /\ UNCHANGED <<manual_global_time_us, manual_pdw_buffer, windows>>
                        /\ after_reset' = "none"

AnyScenario == CHOOSE sc \in ManualScenarios : TRUE

\* the value the "Number of Emitters" widget of manual mode returns when the
\* user has not edited it since the last run: cfg.get("num_emitters", 3)
ManualStoredNumEmitters ==
    IF manual_config.num_emitters = None THEN DefaultManualNumEmitters
    ELSE manual_config.num_emitters[1]

ManualRender ==
    ManualModeUi(ManualStoredNumEmitters, AnyPulses, AnyScenario, "none", NoDraws)

ManualStart ==
    /\ Len(windows) < MaxWindows
    /\ \E n \in NumEmitterInputs, p \in PulseInputs, sc \in ManualScenarios,
          s \in RngStreams :
        ManualModeUi(n, p, sc, "start", s)

ManualPause ==
    ManualModeUi(ManualStoredNumEmitters, AnyPulses, AnyScenario, "pause", NoDraws)

ManualReset ==
    ManualModeUi(ManualStoredNumEmitters, AnyPulses, AnyScenario, "reset", NoDraws)

-----------------------------------------------------------------------------
(* The de-interleaving view (dbscan_ui) *)

\* the largest raw cluster label a clustering run returns in the model; -1 is
\* the clusterer's noise label
MaxLabel == 1

RawLabels == -1..MaxLabel

DataSources == {"Auto Mode (Live)", "Manual Mode (Live)"}

\* the feature lists the four checkboxes produce that are tried
FeatureInputs == {<<"freq_MHz", "pri_us">>, <<>>}

\* algo_options when an HDBSCAN implementation is importable
AlgoOptions == {"DBSCAN", "HDBSCAN"}

\* np.arange(0.1, 3.0, 0.1) has 29 radii; a radius is held in tenths
GridLen == 29

BestEpsStart == 5

MinSamples == 5

Range(seq) == {seq[j] : j \in DOMAIN seq}

CountOf(seq, x) == Cardinality({j \in DOMAIN seq : seq[j] = x})

Abs(x) == IF x < 0 THEN -x ELSE x

\* what DBSCAN(eps, min_samples=5).fit_predict returns on the frame during the
\* scan, as a function of the radius: below "appear" every pulse is noise,
\* from "merge" on all pulses form one cluster, in between there are up to
\* "peak" clusters
DensityProfiles ==
    {[appear |-> GridLen + 1, merge |-> GridLen + 1, peak |-> 1],
     [appear |-> 2, merge |-> 4, peak |-> 2],
     [appear |-> 1, merge |-> 1, peak |-> 1]}

DbscanLabels(pr, eps, n) ==
    [j \in 1..n |-> IF eps < pr.appear THEN -1
                    ELSE IF eps < pr.merge THEN (j - 1) % pr.peak
                    ELSE 0]

\* len(set(labels)) - (1 if -1 in labels else 0)
ClusterCount(labels) ==
    Cardinality(Range(labels)) - (IF -1 \in Range(labels) THEN 1 ELSE 0)

\* the error of the candidate run at radius i: abs(clusters - known_emitters)
CandidateError(pr, i, n, known_emitters) ==
    Abs(ClusterCount(DbscanLabels(pr, i, n)) - known_emitters)

\* best_err, best_eps and best_ms before the loop; best.err is absent while it
\* is float("inf")
BestStart == [err |-> None, eps |-> BestEpsStart, ms |-> MinSamples]

\* a scan that lets a later radius with the same error replace the retained one
Retain_OnTies(best, i, err) ==
    IF best.err = None \/ err <= best.err[1]
    THEN [err |-> Some(err), eps |-> i, ms |-> MinSamples]
    ELSE best

\* "if err < best_err": the candidate replaces the retained one
Retain(best, i, err) ==
    IF best.err = None \/ err < best.err[1]
    THEN [err |-> Some(err), eps |-> i, ms |-> MinSamples]
    ELSE best

\* a scan without the break
StopsAt_Never(err) == FALSE

\* "if err == 0: break"
StopsAt(err) == err = 0

\* the scan over the grid from radius i on
RECURSIVE ScanFrom(_, _, _, _, _)
ScanFrom(i, best, pr, n, known_emitters) ==
    IF i > GridLen
    THEN best
    ELSE LET err  == CandidateError(pr, i, n, known_emitters)
             kept == Retain(best, i, err)
         IN  IF StopsAt(err) THEN kept ELSE ScanFrom(i + 1, kept, pr, n, known_emitters)

\* the value stored under "tuned_params_dbscan"
AutoTune(pr, n, known_emitters) ==
    LET best == ScanFrom(1, BestStart, pr, n, known_emitters)
    IN  [eps |-> best.eps, min_samples |-> best.ms]

\* "if known_emitters and 'tuned_params_dbscan' not in state"
TunerRuns(state, known_emitters, algorithm) ==
    /\ algorithm = "DBSCAN"
    /\ known_emitters # None
    /\ known_emitters[1] # 0
    /\ state.tuned = None

\* sorted(set(labels))
RECURSIVE SortedSeq(_)
SortedSeq(S) ==
    IF S = {}
    THEN <<>>
    ELSE LET least == CHOOSE x \in S : \A y \in S : x <= y
         IN  <<least>> \o SortedSeq(S \ {least})

\* the 0-based position enumerate() gives l in seq
PositionOf(seq, l) == (CHOOSE j \in DOMAIN seq : seq[j] = l) - 1

\* label_map: position + 1 for every label but -1, then label_map[-1] = 0
LabelMap(labels) ==
    LET unique == SortedSeq(Range(labels))
    IN  [l \in Range(labels) \cup {-1} |->
            IF l = -1 THEN 0 ELSE PositionOf(unique, l) + 1]

\* mapped = [label_map[l] for l in labels]
Mapped(labels) == [j \in DOMAIN labels |-> LabelMap(labels)[labels[j]]]

\* a summary whose cluster count forgets to leave out the id 0
SummaryOf_CountsNoise(mapped, known_emitters) ==
    [clusters |-> Cardinality(Range(mapped)),
     noise    |-> CountOf(mapped, 0),
     expected |-> known_emitters]

\* state["summary"]
SummaryOf(mapped, known_emitters) ==
    [clusters |-> Cardinality(Range(mapped)) - (IF 0 \in Range(mapped) THEN 1 ELSE 0),
     noise    |-> CountOf(mapped, 0),
     expected |-> known_emitters]

\* the Pulses column of df_emitters: the rows with Emitter_ID != 0, grouped by
\* Emitter_ID and counted
DfEmitters(results) == [id \in Range(results) \ {0} |-> CountOf(results, id)]

SourceBuffer(data_source) ==
    IF data_source = "Auto Mode (Live)" THEN pdw_buffer ELSE manual_pdw_buffer

\* known_emitters: the "num_emitters" of the config of the selected source
KnownEmitters(data_source) ==
    IF data_source = "Auto Mode (Live)"
    THEN auto_config.num_emitters
    ELSE manual_config.num_emitters

\* a Load / Refresh that replaces the table and keeps what was stored for the
\* table before
AfterLoad_KeepsStored(data_source, button) ==
    IF button = "load" /\ SourceBuffer(data_source) # <<>>
    THEN [dbscan_state EXCEPT !.df = Some(SourceBuffer(data_source))]
    ELSE dbscan_state

\* the state after the Load / Refresh button of the selected source
AfterLoad(data_source, button) ==
    IF button = "load" /\ SourceBuffer(data_source) # <<>>
    THEN [dbscan_state EXCEPT !.df = Some(SourceBuffer(data_source)),
                              !.results = None,
                              !.summary = None,
                              !.tuned = None]
    ELSE dbscan_state

\* the state after the auto-tuning block; found is what the scan comes up with
\* when it runs
AfterTune(state, data_source, algorithm, found) ==
    IF TunerRuns(state, KnownEmitters(data_source), algorithm)
    THEN [state EXCEPT !.tuned = Some(found)]
    ELSE state

\* one run of dbscan_ui: the data source selected, the button pressed ("none",
\* "load", "run"), the features ticked, the algorithm selected, the outcome of
\* the scan and the labels the clustering run returns
DbscanUi(data_source, button, features, algorithm, found, labels) ==
    LET loaded == AfterLoad(data_source, button)
        chosen == [loaded EXCEPT !.features = Some(features)]
        tuned  == AfterTune(chosen, data_source, algorithm, found)
        mapped == Mapped(labels)
    IN  /\ UNCHANGED session_vars
        /\ UNCHANGED <<scan, engine, emitters_call>>
        /\ IF loaded.df = None
           THEN \* "if df_input is None: return"
                /\ dbscan_state' = loaded
                /\ UNCHANGED raw_labels
           ELSE IF features = <<>>
           THEN \* "Select at least one feature."
                /\ dbscan_state' = chosen
                /\ raw_labels' = IF button = "load" THEN None ELSE raw_labels
           ELSE IF button = "run"
           THEN /\ dbscan_state' =
                       [tuned EXCEPT !.results = Some(mapped),
                                     !.summary = Some(SummaryOf(mapped,
                                                         KnownEmitters(data_source)))]
                /\ raw_labels' = Some(labels)
           ELSE /\ dbscan_state' = tuned
                /\ raw_labels' = IF button = "load" THEN None ELSE raw_labels

NoScan == [eps |-> BestEpsStart, min_samples |-> MinSamples]

\* what the scan of a render can come up with: one outcome for each behaviour
\* of DBSCAN when the scan runs, and nothing to choose otherwise
ScanOutcomes(data_source, button, algorithm) ==
    LET loaded == AfterLoad(data_source, button)
    IN  IF /\ loaded.df # None
           /\ TunerRuns(loaded, KnownEmitters(data_source), algorithm)
        THEN {AutoTune(pr, Len(loaded.df[1]), KnownEmitters(data_source)[1]) :
                 pr \in DensityProfiles}
        ELSE {NoScan}

DeintRender ==
    \E data_source \in DataSources, features \in FeatureInputs,
       algorithm \in AlgoOptions :
        \E found \in ScanOutcomes(data_source, "none", algorithm) :
            /\ DbscanUi(data_source, "none", features, algorithm, found, <<>>)
            /\ UNCHANGED view_log

DeintLoad ==
    \E data_source \in DataSources, features \in FeatureInputs,
       algorithm \in AlgoOptions :
        \E found \in ScanOutcomes(data_source, "load", algorithm) :
            /\ DbscanUi(data_source, "load", features, algorithm, found, <<>>)
            /\ UNCHANGED view_log

\* the Run button is drawn only below the feature check
DeintRun ==
    /\ dbscan_state.df # None
    /\ \E data_source \in DataSources, features \in FeatureInputs \ {<<>>},
          algorithm \in AlgoOptions :
        \E found \in ScanOutcomes(data_source, "run", algorithm),
           labels \in [1..Len(dbscan_state.df[1]) -> RawLabels] :
            /\ DbscanUi(data_source, "run", features, algorithm, found, labels)
            /\ UNCHANGED view_log

-----------------------------------------------------------------------------
(* The simulation session *)

vars == <<session_vars, deint_vars, aux_vars>>

\* nothing logged, no scan taken apart, no engine call, no call of
\* generate_emitters_config on its own
InitIdle ==
    /\ view_log = None
    /\ scan = None
    /\ engine = None
    /\ emitters_call = None

\* the view starts with nothing loaded: every key it reads with .get is absent
InitDbscan ==
    /\ dbscan_state = [df |-> None, results |-> None, summary |-> None,
                       features |-> None, tuned |-> None]
    /\ raw_labels = None

\* the module-level session defaults of auto_mode.py and the defaults
\* manual_mode_ui sets on its first run
InitSession ==
    /\ global_time_us \in ClockReadings
    /\ pdw_buffer = <<>>
    /\ auto_running = FALSE
    /\ active_emitters = None
    /\ auto_config = [num_emitters |-> None]
    /\ manual_global_time_us = 0
    /\ manual_pdw_buffer = <<>>
    /\ manual_running = FALSE
    /\ manual_config = [num_emitters |-> None]
    /\ windows = <<>>
    /\ after_reset = "none"

Init ==
    /\ InitSession
    /\ InitDbscan
    /\ InitIdle

Next ==
    \/ AutoRejected
    \/ AutoRender
    \/ AutoStart
    \/ AutoPause
    \/ AutoReset
    \/ ManualRender
    \/ ManualStart
    \/ ManualPause
    \/ ManualReset

Spec == Init /\ [][Next]_vars

\* the auto mode page on its own
NextAuto ==
    \/ AutoRejected
    \/ AutoRender
    \/ AutoStart
    \/ AutoPause
    \/ AutoReset

SpecAuto == Init /\ [][NextAuto]_vars

-----------------------------------------------------------------------------
(* The de-interleaving view over a session that has generated its windows *)

\* the first window of an auto session: one emitter, three pulses
AutoFirstWindow(t0, s) ==
    LET emitters == GenerateEmittersConfig(1, 50, 50, 0, DefaultRanges, s)
    IN  [emitters |-> emitters,
         pulses   |-> GeneratePdwsFromEmitters(emitters, 3, t0, s,
                                               EmitterConfigDraws(1))]

\* the first window of a manual session: two emitters, one pulse each
ManualFirstWindow(sc, s) ==
    ManualRows(ManualEmitters(2, sc.types), 1, 0, sc.noise, s)

InitDeint ==
    /\ InitDbscan
    /\ InitIdle
    /\ auto_running = FALSE
    /\ manual_running = FALSE
    /\ after_reset = "none"
    /\ \E auto_done \in BOOLEAN, manual_done \in BOOLEAN, shown \in NumEmitterInputs :
        LET t0 == NoClock
            a  == AutoFirstWindow(t0, NoDraws)
            m  == ManualFirstWindow(CHOOSE sc \in ManualScenarios : sc.noise = NoNoise,
                                    NoDraws)
            aw == IF auto_done
                  THEN <<WindowRecord("auto", t0, 0, 1, 1, 3, a.pulses)>>
                  ELSE <<>>
            mw == IF manual_done
                  THEN <<WindowRecord("manual", 0, 0, 2, 2, 1, m)>>
                  ELSE <<>>
        IN  /\ global_time_us = IF auto_done THEN WindowEnd(t0) ELSE t0
            /\ pdw_buffer = IF auto_done THEN Pdws(a.pulses) ELSE <<>>
            /\ active_emitters = IF auto_done THEN Some(a.emitters) ELSE None
            /\ auto_config = [num_emitters |-> IF auto_done THEN Some(shown) ELSE None]
            /\ manual_global_time_us = IF manual_done THEN WindowEnd(0) ELSE 0
            /\ manual_pdw_buffer = IF manual_done THEN Pdws(m) ELSE <<>>
            /\ manual_config = [num_emitters |-> IF manual_done THEN Some(2) ELSE None]
            /\ windows = aw \o mw

NextDeint ==
    \/ DeintRender
    \/ DeintLoad
    \/ DeintRun

SpecDeint == InitDeint /\ [][NextDeint]_vars

-----------------------------------------------------------------------------
(* The de-interleaving view with its scans and clusterer calls logged *)

\* the frame and the expected count the stored tuned parameters were scanned
\* with, as the last logged render left them (absent when none are stored)
LoggedBasis == IF view_log = None THEN None ELSE view_log[1].basis

\* what a run of dbscan_ui with these widget values does, read off its
\* branches: whether it gets to the DBSCAN parameter block (request), the frame
\* and expected count it works with, whether it scans, and what kind of feature
\* matrix it hands to DBSCAN (StandardScaler output in the scan and in the run)
RenderLog(data_source, button, features, algorithm) ==
    LET loaded  == AfterLoad(data_source, button)
        known   == KnownEmitters(data_source)
        reaches == loaded.df # None /\ features # <<>>
        scanned == reaches /\ TunerRuns(loaded, known, algorithm)
        ran     == reaches /\ button = "run" /\ algorithm = "DBSCAN"
    IN  [request  |-> reaches /\ algorithm = "DBSCAN",
         features |-> features,
         df       |-> loaded.df,
         known    |-> known,
         scanned  |-> scanned,
         before   |-> LoggedBasis,
         basis    |-> IF scanned THEN Some([df |-> loaded.df[1], known |-> known])
                      ELSE IF loaded.tuned = None THEN None
                      ELSE LoggedBasis,
         fed      |-> IF scanned \/ ran THEN {"standardized"} ELSE {}]

\* the labels a clustering run returns here: what DBSCAN gives at the smallest
\* and at the largest radius of the grid under each behaviour
RunLabels(n) == {DbscanLabels(pr, i, n) : pr \in DensityProfiles, i \in {1, GridLen}}

TuningRender ==
    \E data_source \in DataSources, features \in FeatureInputs,
       algorithm \in AlgoOptions :
        \E found \in ScanOutcomes(data_source, "none", algorithm) :
            /\ DbscanUi(data_source, "none", features, algorithm, found, <<>>)
            /\ view_log' = Some(RenderLog(data_source, "none", features, algorithm))

TuningLoad ==
    \E data_source \in DataSources, features \in FeatureInputs,
       algorithm \in AlgoOptions :
        \E found \in ScanOutcomes(data_source, "load", algorithm) :
            /\ DbscanUi(data_source, "load", features, algorithm, found, <<>>)
            /\ view_log' = Some(RenderLog(data_source, "load", features, algorithm))

TuningRun ==
    /\ dbscan_state.df # None
    /\ \E data_source \in DataSources, features \in FeatureInputs \ {<<>>},
          algorithm \in AlgoOptions :
        \E found \in ScanOutcomes(data_source, "run", algorithm),
           labels \in RunLabels(Len(dbscan_state.df[1])) :
            /\ DbscanUi(data_source, "run", features, algorithm, found, labels)
            /\ view_log' = Some(RenderLog(data_source, "run", features, algorithm))

\* the view, and the auto mode page on which the emitter count can be edited
\* between two runs of the view
NextTuning ==
    \/ TuningRender
    \/ TuningLoad
    \/ TuningRun
    \/ AutoRender

SpecTuning == InitDeint /\ [][NextTuning]_vars

-----------------------------------------------------------------------------
(* The auto-tuner scan, one candidate radius at a time *)

\* the largest expected emitter count (known_emitters) a scan is started with
MaxKnown == 3

\* the numbers of PDWs in the frame that is scanned
FrameSizes == {2, 3}

\* the behaviours of DBSCAN over the grid a scan is run against
ScanProfiles ==
    {[appear |-> a, merge |-> m, peak |-> p] :
        a \in {1, 2, GridLen, GridLen + 1},
        m \in {1, 3, GridLen, GridLen + 1},
        p \in {1, 2, 3}}

\* the scan before its first candidate; i is the radius evaluated next and
\* evaluated the candidate runs made so far
ScanStart(pr, n, known_emitters) ==
    [pr |-> pr, n |-> n, known |-> known_emitters, i |-> 1, best |-> BestStart,
     evaluated |-> <<>>, done |-> FALSE, result |-> None]

\* one pass of the body of "for eps in np.arange(0.1, 3.0, 0.1)"; the pass that
\* ends the loop also stores the tuned parameters
ScanStep ==
    /\ scan # None
    /\ ~scan[1].done
    /\ LET sc   == scan[1]
           err  == CandidateError(sc.pr, sc.i, sc.n, sc.known)
           kept == Retain(sc.best, sc.i, err)
           last == StopsAt(err) \/ sc.i = GridLen
       IN  scan' = Some([sc EXCEPT
                            !.best = kept,
                            !.evaluated = Append(@, [eps |-> sc.i,
                                                     min_samples |-> MinSamples,
                                                     err |-> err,
                                                     best_err |-> kept.err[1]]),
                            !.i = IF last THEN sc.i ELSE sc.i + 1,
                            !.done = last,
                            !.result = IF last
                                       THEN Some([eps |-> kept.eps,
                                                  min_samples |-> kept.ms])
                                       ELSE None])
    /\ UNCHANGED <<session_vars, deint_vars, view_log, engine, emitters_call>>

InitScan ==
    /\ InitSession
    /\ InitDbscan
    /\ view_log = None
    /\ engine = None
    /\ emitters_call = None
    /\ \E pr \in ScanProfiles, n \in FrameSizes, known_emitters \in 1..MaxKnown :
           scan = Some(ScanStart(pr, n, known_emitters))

NextScan == ScanStep

SpecScan == InitScan /\ [][NextScan]_vars

\* the loop is sequential code: a pass that can run does run
SpecScanFair == SpecScan /\ WF_vars(ScanStep)

-----------------------------------------------------------------------------
(* The clustering engine (run_clustering) *)

RecognisedAlgos == {"DBSCAN", "HDBSCAN", "K-Means"}

\* the algo values tried: the recognised ones and one that is not
EngineAlgos == RecognisedAlgos \cup {"OPTICS"}

Columns == {"freq_MHz", "pri_us", "pw_us"}

\* a row of the input table; a cell is absent when it is NaN
TableRow(f, p, w) == [freq_MHz |-> f, pri_us |-> p, pw_us |-> w]

\* the df values tried: None, an empty table, and tables of one and two PDWs,
\* one of them with a missing PRI
EngineTables ==
    {None,
     Some(<<>>),
     Some(<<TableRow(Some(9000), Some(2000), Some(10))>>),
     Some(<<TableRow(Some(9000), Some(2000), Some(10)),
            TableRow(Some(9500), None, Some(12))>>)}

EngineFeatures ==
    {<<>>, <<"freq_MHz">>, <<"freq_MHz", "pri_us">>, <<"pri_us", "pw_us">>}

\* the custom_tols values tried: None, an empty dict, and dicts (sets of
\* <<column, tolerance>>) for one and for all three columns
EngineTols ==
    {None,
     Some({}),
     Some({<<"freq_MHz", 10>>}),
     Some({<<"freq_MHz", 10>>, <<"pri_us", 20>>, <<"pw_us", 2>>})}

EngineParams == {[eps |-> 10, min_samples |-> 5], [n_clusters |-> 3]}

\* HDBSCAN_LIB as the imports at the top of logic.py leave it
HdbscanLibs == {"sklearn", "none"}

\* "df is None or df.empty", taken to hold for a table without its rows only
IsEmptyInput_OnlyNone(df) == df = None

\* "df is None or df.empty"
IsEmptyInput(df) == df = None \/ df[1] = <<>>

\* "custom_tols if custom_tols else {}"
Tols(custom_tols) == IF custom_tols = None THEN {} ELSE custom_tols[1]

HasTol(tols, col) == \E pair \in tols : pair[1] = col

TolOf(tols, col) == (CHOOSE pair \in tols : pair[1] = col)[2]

\* a number as an exact quotient
Ratio(num, den) == [num |-> num, den |-> den]

\* df[features].copy(): the selected columns, one cell per feature
SelectCopy(table, features) ==
    [r \in DOMAIN table |->
        [k \in DOMAIN features |->
            IF table[r][features[k]] = None
            THEN None
            ELSE Some(Ratio(table[r][features[k]][1], 1))]]

\* a cell multiplied by the tolerance
Scale_Times(cell, tol) ==
    IF cell = None THEN None ELSE Some(Ratio(cell[1].num * tol, cell[1].den))

\* "X_custom[col] / tols[col]" on one cell; NaN stays NaN
Scale(cell, tol) ==
    IF cell = None THEN None ELSE Some(Ratio(cell[1].num, cell[1].den * tol))

\* the loop "for col in features: if col in tols: ..."
ToleranceScaled(X_custom, features, tols) ==
    [r \in DOMAIN X_custom |->
        [k \in DOMAIN features |->
            IF HasTol(tols, features[k])
            THEN Scale(X_custom[r][k], TolOf(tols, features[k]))
            ELSE X_custom[r][k]]]

\* ".fillna(0).values"
FillNa(X) ==
    [r \in DOMAIN X |->
        [k \in DOMAIN X[r] |-> IF X[r][k] = None THEN Ratio(0, 1) ELSE X[r][k][1]]]

\* a fallback that returns no labels
Zeros_None(n) == <<>>

\* np.zeros(len(df))
Zeros(n) == [j \in 1..n |-> 0]

\* what the library calls of one run_clustering call can answer: the labels of
\* fit_predict, or an exception out of the scaler or out of the clusterer
Labelled(labels) == [kind |-> "labels", labels |-> labels]

ScalerRaises == [kind |-> "scaler_raises", labels |-> <<>>]

ClustererRaises == [kind |-> "clusterer_raises", labels |-> <<>>]

Returned(labels, calls, df) ==
    [outcome |-> "returned", labels |-> labels, calls |-> calls, df |-> df]

Raised(calls, df) ==
    [outcome |-> "raised", labels |-> <<>>, calls |-> calls, df |-> df]

\* the end of a branch that calls fit_predict
Clustered(calls, answer, df) ==
    IF answer.kind = "labels"
    THEN Returned(answer.labels, calls, df)
    ELSE Raised(calls, df)

\* run_clustering(df, algo, params, features, custom_tols): the labels it
\* returns or the exception it lets through, the library calls it makes, and
\* the caller's table after the call
RunClustering(df, algo, params, features, custom_tols, lib, answer) ==
    IF IsEmptyInput(df)
    THEN Returned(<<>>, <<>>, df)
    ELSE IF algo = "DBSCAN"
    THEN LET X_custom == SelectCopy(df[1], features)
             X_final  == FillNa(ToleranceScaled(X_custom, features, Tols(custom_tols)))
         IN  Clustered(<<[fn |-> "DBSCAN", params |-> params,
                          scaling |-> "tolerance", X |-> X_final]>>,
                       answer, df)
    ELSE IF algo \in {"HDBSCAN", "K-Means"}
    THEN LET X      == SelectCopy(df[1], features)
             scaler == [fn |-> "StandardScaler", params |-> <<>>,
                        scaling |-> "none", X |-> X]
             fit    == [fn |-> IF algo = "HDBSCAN" THEN "HDBSCAN" ELSE "KMeans",
                        params |-> params, scaling |-> "standardized", X |-> X]
         IN  IF answer.kind = "scaler_raises"
             THEN Raised(<<scaler>>, df)
             ELSE IF algo = "HDBSCAN" /\ lib = "none"
             THEN Returned(Zeros(Len(df[1])), <<scaler>>, df)
             ELSE Clustered(<<scaler, fit>>, answer, df)
    ELSE Returned(Zeros(Len(df[1])), <<>>, df)

\* the answers the libraries can give to a call with these arguments
AnswersFor(df, algo, lib) ==
    IF IsEmptyInput(df) \/ algo \notin RecognisedAlgos
    THEN {Labelled(<<>>)}
    ELSE {Labelled(labels) : labels \in [1..Len(df[1]) -> RawLabels]}
         \cup {ClustererRaises}
         \cup (IF algo = "DBSCAN" THEN {} ELSE {ScalerRaises})

\* a call of run_clustering with its arguments, not yet made
EngineArgs(df, algo, params, features, custom_tols, lib) ==
    [df |-> df, algo |-> algo, params |-> params, features |-> features,
     custom_tols |-> custom_tols, lib |-> lib, result |-> None]

\* the call is made
EngineCall ==
    /\ engine # None
    /\ engine[1].result = None
    /\ \E answer \in AnswersFor(engine[1].df, engine[1].algo, engine[1].lib) :
           engine' = Some([engine[1] EXCEPT
                              !.result = Some(RunClustering(engine[1].df,
                                                            engine[1].algo,
                                                            engine[1].params,
                                                            engine[1].features,
                                                            engine[1].custom_tols,
                                                            engine[1].lib,
                                                            answer))])
    /\ UNCHANGED <<session_vars, deint_vars, view_log, scan, emitters_call>>

InitEngine ==
    /\ InitSession
    /\ InitDbscan
    /\ view_log = None
    /\ scan = None
    /\ emitters_call = None
    /\ \E df \in EngineTables, algo \in EngineAlgos, params \in EngineParams,
          features \in EngineFeatures, custom_tols \in EngineTols,
          lib \in HdbscanLibs :
           engine = Some(EngineArgs(df, algo, params, features, custom_tols, lib))

NextEngine == EngineCall

SpecEngine == InitEngine /\ [][NextEngine]_vars

-----------------------------------------------------------------------------
(* generate_emitters_config called on its own *)

\* emitter counts up to this are tried (the widget admits 1..100)
MaxEmitters == 4

\* the values the three percentage widgets are set to
PctLevels == {0, 25, 50, 75, 100}

\* the (fixed, agile, stagger) triples that pass the check of the sum
PctTriples ==
    {pct \in PctLevels \X PctLevels \X PctLevels : PctSum(pct) = 100}

\* the behaviour classes in the order of the percentage arguments
ClassNames == <<"fixed", "agile", "stagger">>

\* one call with the default ranges of the page
ConfigCall ==
    /\ emitters_call = None
    /\ \E num_emitters \in 1..MaxEmitters, pct \in PctTriples, s \in RngStreams :
           emitters_call' =
               Some([num_emitters |-> num_emitters,
                     pct          |-> pct,
                     draws        |-> s,
                     emitters     |-> GenerateEmittersConfig(num_emitters, pct[1],
                                          pct[2], pct[3], DefaultRanges, s)])
    /\ UNCHANGED <<session_vars, deint_vars, view_log, scan, engine>>

InitConfig == InitSession /\ InitDbscan /\ InitIdle

NextConfig == ConfigCall

SpecConfig == InitConfig /\ [][NextConfig]_vars

-----------------------------------------------------------------------------
(* Reading the history *)

BufferOf(mode) == IF mode = "auto" THEN pdw_buffer ELSE manual_pdw_buffer

\* the row of pulse k (from 0) of emitter e (from 1) of window w
RowOf(w, e, k) == BufferOf(w.mode)[w.base + (e - 1) * w.pulses + k + 1]

\* the PRI of the step of that pulse
PriOf(w, e, k) == w.pris[(e - 1) * w.pulses + k + 1]

WindowSet == {windows[i] : i \in 1..Len(windows)}

RECURSIVE SumSizes(_)
SumSizes(ws) ==
    IF ws = <<>> THEN 0 ELSE Head(ws).pulses * Head(ws).n_used + SumSizes(Tail(ws))

IsPrefix(a, b) == Len(a) <= Len(b) /\ SubSeq(b, 1, Len(a)) = a

Grew(mode) == Len(WindowsOf(mode)') = Len(WindowsOf(mode)) + 1

-----------------------------------------------------------------------------
(* Claims on the simulation session *)

\* C1: every auto-mode window held in the buffer was generated from the emitter
\* list that is active now: as many emitters as the list has, in its order, and
\* each row carries the frequency, PRI, pulse width, amplitude and DOA of its
\* emitter, whatever the widgets held when the window was generated.
C1_SameEmittersEveryWindow ==
    \A w \in WindowSet :
        w.mode = "auto" =>
            /\ active_emitters # None
            /\ w.n_used = Len(active_emitters[1])
            /\ \A e \in 1..w.n_used, k \in 0..(w.pulses - 1) :
                   LET row == RowOf(w, e, k)
                       em  == active_emitters[1][e]
                   IN  /\ row.freq_MHz = Mode(em.freq_modes, k)
                       /\ row.pri_us = Mode(em.pri_modes, k)
                       /\ row.pw_us = em.pw
                       /\ row.amp_dB = em.amp
                       /\ row.doa_deg = em.doa

\* two windows from one list, the second generated with a different emitter count
\* in the widget
C1_Witness ==
    /\ Len(WindowsOf("auto")) = 2
    /\ WindowsOf("auto")[2].num_emitters # WindowsOf("auto")[2].n_used
    /\ WindowsOf("auto")[2].n_used = 2

\* C2: a window generation adds exactly 2,000,000 to the cursor of its mode, and
\* a step that changes a cursor is a window generation or a reset of that mode.
C2_CursorAdvance ==
    [][ /\ Grew("auto") => global_time_us' = global_time_us + 2000000
        /\ Grew("manual") => manual_global_time_us' = manual_global_time_us + 2000000
        /\ global_time_us' # global_time_us => Grew("auto") \/ after_reset' = "auto"
        /\ manual_global_time_us' # manual_global_time_us
               => Grew("manual") \/ after_reset' = "manual" ]_vars

C2_Witness ==
    /\ Len(WindowsOf("auto")) = 1
    /\ Len(WindowsOf("manual")) = 1
    /\ manual_global_time_us = 2000000

\* C3 as stated: no step, a reset included, lowers a cursor.
C3_NeverDecreases ==
    [][ /\ global_time_us' >= global_time_us
        /\ manual_global_time_us' >= manual_global_time_us ]_vars

\* C3 amended: a window generation raises the cursor of its mode and no step
\* other than a reset of that mode lowers it.
C3_OnlyResetLowers ==
    [][ /\ Grew("auto") => global_time_us' > global_time_us
        /\ Grew("manual") => manual_global_time_us' > manual_global_time_us
        /\ after_reset' # "auto" => global_time_us' >= global_time_us
        /\ after_reset' # "manual" => manual_global_time_us' >= manual_global_time_us ]_vars

\* a manual reset has brought the cursor back to 0 while auto-mode windows remain
C3_Witness ==
    /\ after_reset = "manual"
    /\ manual_global_time_us = 0
    /\ Len(WindowsOf("auto")) = 2

\* C4: a step other than a reset of the mode leaves the buffer of the mode a
\* prefix of what it becomes.
C4_AppendOnly ==
    [][ /\ after_reset' # "auto" => IsPrefix(pdw_buffer, pdw_buffer')
        /\ after_reset' # "manual" => IsPrefix(manual_pdw_buffer, manual_pdw_buffer') ]_vars

C4_Witness ==
    /\ Len(WindowsOf("manual")) = 2
    /\ Len(manual_pdw_buffer) > WindowsOf("manual")[2].base
    /\ WindowsOf("manual")[2].base > 0

\* C5: after a reset of auto mode the buffer is empty, the emitter list is
\* absent and nothing is left to generate; the first window generated into an
\* empty buffer uses a list built for the emitter count of its own render.
C5_AutoReset ==
    /\ after_reset = "auto" =>
           /\ pdw_buffer = <<>>
           /\ active_emitters = None
           /\ ~auto_running
    /\ active_emitters = None <=> pdw_buffer = <<>>
    /\ \A w \in WindowSet :
           w.mode = "auto" /\ w.base = 0 => w.n_used = w.num_emitters

C5_Witness ==
    /\ after_reset = "auto"
    /\ pdw_buffer = <<>>
    /\ Len(WindowsOf("manual")) = 2

\* C6: the buffer of a mode holds pulse_count * (emitters used) rows for each
\* of its windows: every generation appended exactly that many.
C6_RowsPerWindow ==
    /\ Len(pdw_buffer) = SumSizes(WindowsOf("auto"))
    /\ Len(manual_pdw_buffer) = SumSizes(WindowsOf("manual"))
    /\ \A w \in WindowSet : w.base + w.pulses * w.n_used <= Len(BufferOf(w.mode))

C6_Witness ==
    /\ Len(pdw_buffer) = 4
    /\ Len(manual_pdw_buffer) = 2

\* C7: every PDW's toa_us is at least the start time of its window.
C7_ToaNotBeforeWindow ==
    \A w \in WindowSet :
        \A e \in 1..w.n_used, k \in 0..(w.pulses - 1) :
            RowOf(w, e, k).toa_us >= w.start

\* C8: within a window, the toa of pulse k+1 of an emitter is the toa of its
\* pulse k plus the PRI of pulse k.
C8_ToaStep ==
    \A w \in WindowSet :
        \A e \in 1..w.n_used, k \in 0..(w.pulses - 2) :
            RowOf(w, e, k + 1).toa_us = RowOf(w, e, k).toa_us + PriOf(w, e, k)


-----------------------------------------------------------------------------
(* Reading the result of a clustering run *)

\* the distinct raw labels of the last run other than the noise label
NonNoiseLabels == Range(raw_labels[1]) \ {-1}

\* the emitter ids given to the pulses whose raw label is not the noise label
NonNoiseIds ==
    {dbscan_state.results[1][j] :
        j \in {i \in DOMAIN raw_labels[1] : raw_labels[1][i] # -1}}

RECURSIVE SumOver(_, _)
SumOver(f, S) ==
    IF S = {}
    THEN 0
    ELSE LET x == CHOOSE y \in S : TRUE IN f[x] + SumOver(f, S \ {x})

\* C9: the assembler gives emitter id 0 to exactly the PDWs whose raw label is
\* -1, and the ids of the K distinct non-noise raw labels are exactly 1..K.
C9_DenseIds ==
    (dbscan_state.results # None /\ raw_labels # None) =>
        /\ \A j \in DOMAIN raw_labels[1] :
               (dbscan_state.results[1][j] = 0) <=> (raw_labels[1][j] = -1)
        /\ NonNoiseIds = 1..Cardinality(NonNoiseLabels)

\* C10: the summary's detected count is the number of distinct non-noise raw
\* labels and of distinct non-zero emitter ids, its noise count is the number
\* of PDWs labelled -1, and the per-emitter pulse counts plus the noise count
\* add up to the number of PDWs clustered.
C10_SummaryCounts ==
    (dbscan_state.results # None /\ raw_labels # None) =>
        LET results == dbscan_state.results[1]
            summary == dbscan_state.summary[1]
            pulses  == DfEmitters(results)
        IN  /\ summary.clusters = Cardinality(NonNoiseLabels)
            /\ summary.clusters = Cardinality(Range(results) \ {0})
            /\ summary.noise = CountOf(raw_labels[1], -1)
            /\ SumOver(pulses, DOMAIN pulses) + summary.noise
                   = Len(dbscan_state.df[1])
            /\ Len(raw_labels[1]) = Len(dbscan_state.df[1])

\* a run over three PDWs that returned two clusters and a noise pulse
C10_Witness ==
    /\ dbscan_state.results # None
    /\ raw_labels # None
    /\ Len(dbscan_state.df[1]) = 3
    /\ Cardinality(NonNoiseLabels) = 2
    /\ dbscan_state.summary[1].noise = 1


-----------------------------------------------------------------------------
(* Reading the scan *)

\* the candidate runs the scan has made so far
Evaluated == scan[1].evaluated

\* C11: at every step of the scan the retained radius is the first scanned
\* radius whose error is minimal among the radii scanned so far, the best
\* error so far never increases, and the radius stored at the end is a scanned
\* candidate whether or not a candidate reached error zero.
C11_FirstMinimalRetained ==
    (scan # None /\ Evaluated # <<>>) =>
        LET best == scan[1].best
        IN  /\ best.err # None
            /\ best.eps \in 1..Len(Evaluated)
            /\ Evaluated[best.eps].eps = best.eps
            /\ Evaluated[best.eps].err = best.err[1]
            /\ \A j \in 1..Len(Evaluated) :
                   /\ Evaluated[j].err >= best.err[1]
                   /\ j < best.eps => Evaluated[j].err > best.err[1]
            /\ \A j \in 2..Len(Evaluated) :
                   Evaluated[j].best_err <= Evaluated[j - 1].best_err
            /\ scan[1].done =>
                   /\ scan[1].result # None
                   /\ scan[1].result[1].eps = best.eps
                   /\ scan[1].result[1] =
                          AutoTune(scan[1].pr, scan[1].n, scan[1].known)

\* a scan that went through the whole grid without reaching error zero and met
\* its least error at more than one radius
C11_Witness ==
    /\ scan # None
    /\ scan[1].done
    /\ Len(Evaluated) = GridLen
    /\ scan[1].best.err[1] > 0
    /\ \E j \in 1..Len(Evaluated) :
           j > scan[1].best.eps /\ Evaluated[j].err = scan[1].best.err[1]

\* the candidate runs are the grid radii in increasing order, each once and
\* with min_samples 5; no run follows a run with error zero; the scan is over
\* exactly when its last run had error zero or was the last radius of the grid
ScanStopsInOrder ==
    scan # None =>
        /\ Len(Evaluated) <= GridLen
        /\ \A j \in 1..Len(Evaluated) :
               /\ Evaluated[j].eps = j
               /\ Evaluated[j].min_samples = 5
               /\ j < Len(Evaluated) => Evaluated[j].err # 0
        /\ scan[1].done <=>
               /\ Evaluated # <<>>
               /\ \/ Evaluated[Len(Evaluated)].err = 0
                  \/ Len(Evaluated) = GridLen

ScanOver == scan # None /\ scan[1].done

\* C12: the scan always terminates: it stops at the first radius whose error is
\* zero, and otherwise after every radius of the grid has been evaluated once,
\* in increasing order, with min_samples 5.
C12_ScanTerminates == []ScanStopsInOrder /\ <>ScanOver

\* a scan that stopped before the end of the grid
C12_Witness ==
    /\ ScanOver
    /\ Len(Evaluated) > 1
    /\ Len(Evaluated) < GridLen
    /\ Evaluated[Len(Evaluated)].err = 0


-----------------------------------------------------------------------------
(* Reading the log of the view *)

\* C13: once a scan has stored tuned parameters, a later DBSCAN request scans
\* again exactly when the loaded frame or the expected emitter count differs
\* from what that scan was run with; otherwise the stored parameters are reused.
C13_RescanIffChanged ==
    (view_log # None /\ view_log[1].request /\ view_log[1].before # None) =>
        (view_log[1].scanned <=>
            \/ view_log[1].df[1] # view_log[1].before[1].df
            \/ view_log[1].known # view_log[1].before[1].known)


-----------------------------------------------------------------------------
(* Reading a call of the clustering engine *)

\* a call of run_clustering that has been made
EngineDone == engine # None /\ engine[1].result # None

EngineResult == engine[1].result[1]

\* C14: run_clustering on a non-empty input of n PDWs with an algorithm value
\* that is not recognised returns n labels, all 0, and does not raise, whatever
\* the params, features and tolerances.
C14_UnknownAlgoZeros ==
    (/\ EngineDone
     /\ engine[1].df # None
     /\ engine[1].df[1] # <<>>
     /\ engine[1].algo \notin {"DBSCAN", "HDBSCAN", "K-Means"}) =>
        /\ EngineResult.outcome = "returned"
        /\ Len(EngineResult.labels) = Len(engine[1].df[1])
        /\ \A j \in 1..Len(EngineResult.labels) : EngineResult.labels[j] = 0

\* an unrecognised algorithm on a table of two PDWs with no feature selected
C14_Witness ==
    /\ EngineDone
    /\ engine[1].algo = "OPTICS"
    /\ engine[1].df # None
    /\ Len(engine[1].df[1]) = 2
    /\ engine[1].features = <<>>
    /\ EngineResult.labels = <<0, 0>>

\* C15: run_clustering on a missing or empty input returns an empty label
\* sequence and does not raise, for every algorithm value, params value and
\* feature list.
C15_EmptyInputEmptyLabels ==
    (EngineDone /\ (engine[1].df = None \/ engine[1].df[1] = <<>>)) =>
        /\ EngineResult.outcome = "returned"
        /\ EngineResult.labels = <<>>
        /\ EngineResult.calls = <<>>

\* an empty table handed to DBSCAN
C15_Witness ==
    /\ EngineDone
    /\ engine[1].df = Some(<<>>)
    /\ engine[1].algo = "DBSCAN"
    /\ EngineResult.outcome = "returned"


-----------------------------------------------------------------------------
(* Rejected renders of auto mode *)

\* C16: a render of auto mode whose three percentages do not sum to 100
\* generates nothing, even with Start / Generate pressed: the time cursor,
\* pdw_buffer, active_emitters and the windows generated so far are the same
\* after it.
C16_RejectedBeforeGeneration ==
    [][(\E n \in NumEmitterInputs, pct \in PctInputs :
           /\ pct[1] + pct[2] + pct[3] # 100
           /\ AutoModeUi(n, AnyPulses, pct, DefaultRanges, "start", NoDraws, NoClock))
       => /\ global_time_us' = global_time_us
          /\ pdw_buffer' = pdw_buffer
          /\ active_emitters' = active_emitters
          /\ windows' = windows]_vars

\* a rejected render in a session that has generated a window
C16_Witness ==
    /\ after_reset = "rejected"
    /\ pdw_buffer # <<>>
    /\ active_emitters # None


-----------------------------------------------------------------------------
(* Requests without features, and what DBSCAN is fed *)

\* C17: a clustering request with no feature selected is rejected before any
\* clustering: neither a clustering algorithm nor an auto-tune scan is run on
\* it, in dbscan_ui and in run_clustering called with what render_settings
\* returns.
C17_ZeroFeaturesRejected ==
    /\ (view_log # None /\ view_log[1].features = <<>>) =>
           /\ ~view_log[1].scanned
           /\ view_log[1].fed = {}
    /\ (EngineDone /\ engine[1].features = <<>>) =>
           EngineResult.calls = <<>>

\* C18: pulse k of an emitter in a generated auto-mode window carries the
\* emitter's freq_modes[k mod len(freq_modes)] as its frequency and its
\* pri_modes[k mod len(pri_modes)] as its PRI, the PRI being the step to the
\* next pulse as well; every emitter of the active list has at least one
\* frequency mode and at least one PRI mode.
C18_NominalModes ==
    /\ active_emitters # None =>
           \A e \in 1..Len(active_emitters[1]) :
               /\ Len(active_emitters[1][e].freq_modes) >= 1
               /\ Len(active_emitters[1][e].pri_modes) >= 1
    /\ \A w \in WindowSet :
           w.mode = "auto" =>
               /\ active_emitters # None
               /\ w.n_used <= Len(active_emitters[1])
               /\ \A e \in 1..w.n_used, k \in 0..(w.pulses - 1) :
                      LET emitter == active_emitters[1][e]
                          fi == (k % Len(emitter.freq_modes)) + 1
                          pi == (k % Len(emitter.pri_modes)) + 1
                      IN  /\ RowOf(w, e, k).freq_MHz = emitter.freq_modes[fi]
                          /\ RowOf(w, e, k).pri_us = emitter.pri_modes[pi]
                          /\ PriOf(w, e, k) = emitter.pri_modes[pi]

\* two auto-mode windows of two pulses per emitter are in the buffer
C18_Witness ==
    /\ active_emitters # None
    /\ Len(WindowsOf("auto")) = 2
    /\ \A i \in 1..2 : WindowsOf("auto")[i].pulses = 2

\* the cell DBSCAN is to get for the table cell of a selected column: absent
\* cells as 0, cells of a column with a tolerance divided by it, the others
\* as they are
ExpectedCell(cell, col, custom_tols) ==
    IF cell = None
    THEN [num |-> 0, den |-> 1]
    ELSE IF custom_tols # None /\ (\E pair \in custom_tols[1] : pair[1] = col)
    THEN [num |-> cell[1],
          den |-> (CHOOSE pair \in custom_tols[1] : pair[1] = col)[2]]
    ELSE [num |-> cell[1], den |-> 1]

\* C19: for DBSCAN, run_clustering divides every selected feature that has a
\* tolerance by it, passes the other selected features through, puts 0 for
\* missing values, and leaves the caller's table as it was.
C19_ToleranceScaling ==
    (/\ EngineDone
     /\ engine[1].algo = "DBSCAN"
     /\ engine[1].df # None
     /\ engine[1].df[1] # <<>>) =>
        LET table    == engine[1].df[1]
            features == engine[1].features
            X        == EngineResult.calls[1].X
        IN  /\ Len(EngineResult.calls) = 1
            /\ EngineResult.calls[1].fn = "DBSCAN"
            /\ Len(X) = Len(table)
            /\ \A r \in 1..Len(table) :
                   /\ Len(X[r]) = Len(features)
                   /\ \A k \in 1..Len(features) :
                          X[r][k] = ExpectedCell(table[r][features[k]], features[k],
                                                 engine[1].custom_tols)
            /\ EngineResult.df = engine[1].df

\* a DBSCAN call on two PDWs, the second with a missing PRI, with frequency and
\* PRI selected and a tolerance for the frequency only
C19_Witness ==
    /\ EngineDone
    /\ engine[1].algo = "DBSCAN"
    /\ engine[1].features = <<"freq_MHz", "pri_us">>
    /\ engine[1].custom_tols = Some({<<"freq_MHz", 10>>})
    /\ engine[1].df # None
    /\ Len(engine[1].df[1]) = 2
    /\ EngineResult.calls[1].X[2] = <<[num |-> 9500, den |-> 10], [num |-> 0, den |-> 1]>>

\* C20: every DBSCAN run, the candidate runs of the auto-tuner and the final
\* run with the tuned radius included, works on tolerance-scaled features and
\* never on standardized ones.
C20_DbscanOnToleranceScaled ==
    /\ view_log # None => view_log[1].fed \subseteq {"tolerance"}
    /\ EngineDone =>
           \A c \in 1..Len(EngineResult.calls) :
               EngineResult.calls[c].fn = "DBSCAN" =>
                   EngineResult.calls[c].scaling = "tolerance"

-----------------------------------------------------------------------------
(* Claims on the allocation of behaviour classes *)

\* the emitters of the returned list that are of the given class
OfClass(emitters, class) == {i \in 1..Len(emitters) : emitters[i].type = class}

\* C21: for a percentage triple summing to 100, generate_emitters_config
\* returns exactly num_emitters emitters, and a class whose percentage is 0
\* gets none of them.
C21_Allocation ==
    emitters_call # None =>
        LET c == emitters_call[1]
        IN  /\ Len(c.emitters) = c.num_emitters
            /\ \A j \in 1..3 :
                   c.pct[j] = 0 => OfClass(c.emitters, ClassNames[j]) = {}

-----------------------------------------------------------------------------
(* Claims on what the view stores *)

\* a run of the view with the Load / Refresh button of the source pressed;
\* what its scan came up with is read off the parameters it stored
LoadStep(data_source) ==
    LET found == IF dbscan_state'.tuned = None THEN NoScan ELSE dbscan_state'.tuned[1]
    IN  \E features \in FeatureInputs, algorithm \in AlgoOptions :
            /\ view_log' = Some(RenderLog(data_source, "load", features, algorithm))
            /\ DbscanUi(data_source, "load", features, algorithm, found, <<>>)

\* stored results come with a summary and hold one emitter id for each row of
\* the loaded table
ResultsFitTable ==
    dbscan_state.results # None =>
        /\ dbscan_state.summary # None
        /\ dbscan_state.df # None
        /\ Len(dbscan_state.results[1]) = Len(dbscan_state.df[1])

\* a Load / Refresh of a source whose buffer holds PDWs leaves no results, no
\* summary and no tuned parameters of before: tuned parameters are there
\* after the run only when the auto-tuner has scanned the new table in it
LoadClears ==
    \A data_source \in DataSources :
        (SourceBuffer(data_source) # <<>> /\ LoadStep(data_source)) =>
            /\ dbscan_state'.df = Some(SourceBuffer(data_source))
            /\ dbscan_state'.results = None
            /\ dbscan_state'.summary = None
            /\ dbscan_state'.tuned # None => view_log'[1].scanned

\* a Load / Refresh of a source whose buffer is empty keeps the table, the
\* results and the summary, and the tuned parameters that were there; absent
\* ones are filled in only by a scan of the auto-tuner in the same run
EmptyLoadKeeps ==
    \A data_source \in DataSources :
        (SourceBuffer(data_source) = <<>> /\ LoadStep(data_source)) =>
            /\ dbscan_state'.df = dbscan_state.df
            /\ dbscan_state'.results = dbscan_state.results
            /\ dbscan_state'.summary = dbscan_state.summary
            /\ dbscan_state'.tuned # dbscan_state.tuned =>
                   /\ dbscan_state.tuned = None
                   /\ view_log'[1].scanned

\* C22: whatever is pressed and selected in the view, stored results come with
\* a summary and have as many emitter ids as the loaded table has rows; a
\* Load / Refresh that finds PDWs clears results, summary and tuned
\* parameters, and one that finds an empty buffer changes none of them.
C22_StoredResults ==
    /\ []ResultsFitTable
    /\ [][LoadClears]_vars
    /\ [][EmptyLoadKeeps]_vars

\* the results of a run are stored for the three PDWs loaded from auto mode,
\* in a session whose manual mode buffer holds PDWs as well
C22_Witness ==
    /\ dbscan_state.results # None
    /\ dbscan_state.summary # None
    /\ dbscan_state.df = Some(pdw_buffer)
    /\ Len(dbscan_state.results[1]) = 3
    /\ manual_pdw_buffer # <<>>
    /\ view_log # None

\* the numbers of emitters the windows behind a loaded table were generated
\* from: the table is a copy of the buffer of one of the modes
EmitterCountsBehind(df) ==
    LET mode == IF df = pdw_buffer THEN "auto" ELSE "manual"
    IN  {w.n_used : w \in {v \in WindowSet : v.mode = mode}}

\* C23: the expected emitter count the auto-tuner scans against, and the one
\* the summary of a run records, is the number of emitters that generated the
\* PDWs of the loaded table.
C23_ExpectedIsGroundTruth ==
    /\ (view_log # None /\ view_log[1].scanned) =>
           \A n \in EmitterCountsBehind(view_log[1].df[1]) :
               view_log[1].known = Some(n)
    /\ (dbscan_state.summary # None /\ dbscan_state.summary[1].expected # None) =>
           \A n \in EmitterCountsBehind(dbscan_state.df[1]) :
               dbscan_state.summary[1].expected = Some(n)

=============================================================================
